---- MODULE Spec2Model ----
(***************************************************************************)
(* Conversation buffering and session coordination of the WhatsApp agent:  *)
(* the Redis-backed message buffer with its in-process fallback            *)
(* (tools/redis_tools.py), the webhook, the buffer_loop watcher thread and *)
(* process_async (server.py).                                              *)
(*                                                                         *)
(* All state of the program is keyed by the digits-only phone number and   *)
(* the keys of two conversations never meet, so the model follows one      *)
(* conversation.  Time is counted in ticks of half a second, the unit in   *)
(* which every delay of the code (3.5 s, 0.5 s, 2.0-4.0 s) is a whole      *)
(* number.                                                                 *)
(***************************************************************************)
EXTENDS Integers, Sequences, FiniteSets, TLC

\* ---------------------------------------------------------------- bounds
MaxEvents == 3      \* outside events followed: requests, store outages and recoveries, cooldowns
MaxWatchers == 2    \* thread slots a buffer_loop thread can occupy
MaxTasks == 2       \* thread-pool slots a background process_async can occupy
MaxTime == 60       \* ticks followed by the timed specification
MaxMinutes == 100   \* minutes followed by the session specification
StepMinutes == 10   \* the grain of time in the session specification
MaxEditMinutes == 15  \* minutes followed by the order specification
EditStepMinutes == 3  \* the grain of time in the order specification
MaxBurstTime == 640   \* ticks followed by the burst specification

\* ------------------------------------------------------ program constants
StallLimit == 3         \* while stall < 3
PollInterval == 7       \* time.sleep(3.5), in ticks
ttl_seconds == 300      \* push_message_to_buffer's default ttl_seconds
cooldown_seconds == 60  \* set_agent_cooldown's default ttl_seconds
ttl_minutes == 40       \* process_async: check_and_refresh_session(num, ttl_minutes=40)
edit_minutes == 10      \* pedidos_tool: set_order_edit_window(tel, minutes=10)
Ticks(seconds) == 2 * seconds

Watchers == 1..MaxWatchers
Tasks == (MaxWatchers + 1)..(MaxWatchers + MaxTasks)
Procs == Watchers \cup Tasks

\* Message texts, as sequences of characters.  _extract_incoming's text is
\* never empty when it reaches the buffer (webhook: `if not tel or not txt`).
Fragments == { <<"a">>, <<" ">> }

VARIABLES
    store_up,         \* whether the Redis server answers: a call made while it does not raises
    _redis_client,    \* the module-level singleton: "None" or "Client"
    msgbuf,           \* the Redis list msgbuf:<tel>
    msgbuf_ttl,       \* its TTL as Redis reports it: -2 no key, -1 no TTL, else ticks left
    cooldown,         \* TTL of the key cooldown:<tel>, -2 when absent
    session_order,    \* TTL of the key session_order:<tel>, -2 when absent
    _local_buffer,    \* _local_buffer.get(tel): 0 for None, else a reference into heap
    heap,             \* the list objects created by push_message_to_buffer's fallback
    buffer_sessions,  \* buffer_sessions.get(tel)
    wh,               \* the webhook call the event loop is running
    watcher,          \* the buffer_loop threads, by thread slot
    pa,               \* the process_async calls, by the thread that runs them
    now,              \* ticks elapsed
    timed,            \* whether sleeps are measured against `now`
    npush,            \* history: webhook requests received so far
    turns,            \* history: the turns handed to process_async, in order
    drained,          \* history: how many times each id was in a list buffer_loop joined
    events,           \* history: outside events so far
    accepted,         \* history: ids whose push_message_to_buffer returned True
    last_push,        \* history: tick of the latest accepted push, -1 before the first
    burst,            \* history: fragments that landed since the buffer was last found empty
    cd_epoch,         \* history: how many cooldowns have begun
    edit_window,      \* TTL of the key edit_window:<tel>, -2 when absent
    tool,             \* history: what the agent's order tools last did and answered
    run,              \* one process_async call followed statement by statement
    exits,            \* history: how each buffer_loop thread ended, in order
    pops              \* two pop_all_messages calls in a row and what they returned

vars == << store_up, _redis_client, msgbuf, msgbuf_ttl, cooldown, session_order, _local_buffer,
           heap, buffer_sessions, wh, watcher, pa, now, timed, npush, turns,
           drained, events, accepted, last_push, burst,
           cd_epoch, edit_window, tool, run, exits, pops >>

conn_vars == << store_up, events >>
list_vars == << msgbuf, msgbuf_ttl >>
key_vars == << cooldown, session_order >>
local_vars == << _local_buffer, heap >>
clock_vars == << now, timed >>
hist_vars == << npush, turns, drained, accepted, last_push, burst, cd_epoch >>
aux_vars == << edit_window, tool, run, exits, pops >>

\* ---------------------------------------------------------------- helpers
NoElem == [id |-> 0, txt |-> <<>>, cd |-> 0]
NoBurst == [frags |-> <<>>, close |-> TRUE, idle |-> TRUE]

\* m.strip(): whether anything is left once the white space is taken away.
strip_nonempty(txt) == \E i \in 1..Len(txt) : txt[i] # " "

RECURSIVE join(_)
\* " ".join(parts) over a sequence of texts.
join(parts) ==
    IF parts = <<>> THEN <<>>
    ELSE IF Len(parts) = 1 THEN parts[1]
    ELSE parts[1] \o <<" ">> \o join(Tail(parts))

RECURSIVE nonblank(_)
\* [m for m in msgs if m.strip()]
nonblank(msgs) ==
    IF msgs = <<>> THEN <<>>
    ELSE IF strip_nonempty(msgs[1].txt) THEN <<msgs[1]>> \o nonblank(Tail(msgs))
    ELSE nonblank(Tail(msgs))

texts(msgs) == [i \in 1..Len(msgs) |-> msgs[i].txt]
ids(msgs) == [i \in 1..Len(msgs) |-> msgs[i].id]

\* The duration a sleep is given: measured in the timed specification only.
Dur(d) == IF timed THEN d ELSE 0

\* get_redis_client(): the singleton once it is set; otherwise one connection
\* attempt (ping), which succeeds when the server answers.  The result is
\* also the new value of _redis_client.
get_redis_client ==
    IF _redis_client = "None" THEN (IF store_up THEN "Client" ELSE "None")
    ELSE _redis_client

WhIdle == [pc |-> "idle", elem |-> NoElem, active |-> FALSE, msgs |-> 0, ret |-> FALSE,
           ttl |-> 0, cdread |-> "none", path |-> "none", marker |-> FALSE,
           armed |-> FALSE, key_ttl |-> -2]
WatcherIdle == [pc |-> "idle", prev |-> 0, stall |-> 0, ref |-> 0, msgs |-> <<>>,
                timer |-> 0, raised |-> FALSE, last |-> 0]
PaIdle == [pc |-> "idle", msg |-> <<>>, exists |-> FALSE, check |-> "none",
           unavailable |-> FALSE, engine |-> FALSE, timer |-> 0, seen |-> 0]
\* The order tools' history: when the edit window was last opened, how many
\* reads have answered True since (counted up to 2), what the last
\* pedidos_tool call met and did, and the last is_order_editable call.
NoRead == [result |-> "none", at |-> -1, opened |-> -1, unavailable |-> FALSE]
ToolIdle == [opened_at |-> -1, trues |-> 0, outcome |-> "none", marked |-> FALSE,
            alterar |-> "none",
             set_called |-> FALSE, read |-> NoRead]
RunIdle == [pc |-> "idle"]
\* Two calls of pop_all_messages in a row, with get_buffer_length between:
\* how far they are, what each returned, what the two buffers held before
\* the first (the one the call read and the other one), and whether the store
\* answered every call.
PopsIdle == [stage |-> 0, first |-> <<>>, len |-> -1, second |-> <<>>,
             before |-> <<>>, elsewhere |-> <<>>, answered |-> TRUE]

\* The process has just started: nothing is connected, buffered or running.
\* The Redis server may or may not be answering.
Start ==
    /\ store_up \in BOOLEAN
    /\ _redis_client = "None"
    /\ msgbuf = <<>>
    /\ msgbuf_ttl = -2
    /\ cooldown = -2
    /\ session_order = -2
    /\ _local_buffer = 0
    /\ heap = <<>>
    /\ buffer_sessions = FALSE
    /\ wh = WhIdle
    /\ watcher = [w \in Watchers |-> WatcherIdle]
    /\ pa = [p \in Procs |-> PaIdle]
    /\ now = 0
    /\ npush = 0
    /\ turns = <<>>
    /\ drained = [i \in 1..MaxEvents |-> 0]
    /\ events = 0
    /\ accepted = {}
    /\ last_push = -1
    /\ burst = NoBurst
    /\ cd_epoch = 0
    /\ edit_window = -2
    /\ tool = ToolIdle
    /\ run = RunIdle
    /\ exits = <<>>
    /\ pops = PopsIdle

Init == Start /\ timed = FALSE
InitTimed == Start /\ timed = TRUE

\* ------------------------------------------------------- the webhook call
\* The handler is an `async def` that never awaits after reading the request
\* body, so the event loop runs one call at a time; the threads below run
\* between any two of its store calls or statements.

\* webhook: a request of the conversation arrives with a non-empty text.
webhook_receive(txt) ==
    /\ wh.pc = "idle"
    /\ events < MaxEvents
    /\ events' = events + 1
    /\ npush' = npush + 1
    /\ wh' = [WhIdle EXCEPT !.pc = "cooldown",
                             !.elem = [id |-> npush + 1, txt |-> txt, cd |-> 0]]
    /\ UNCHANGED << store_up, _redis_client, list_vars, key_vars, local_vars,
                    buffer_sessions, watcher, pa, clock_vars, aux_vars, turns, drained, accepted,
                    last_push, burst, cd_epoch >>

\* is_agent_in_cooldown, lines 151-158: the client and client.get(key).
\* (False, -1) without a client, on a RedisError and when the key is absent.
webhook_cooldown_get ==
    /\ wh.pc = "cooldown"
    /\ _redis_client' = get_redis_client
    /\ wh' = IF get_redis_client = "None" \/ ~store_up
             THEN [wh EXCEPT !.pc = "push", !.active = FALSE, !.ttl = -1,
                             !.cdread = "failed"]
             ELSE IF cooldown = -2
             THEN [wh EXCEPT !.pc = "push", !.active = FALSE, !.ttl = -1,
                             !.cdread = "absent"]
             ELSE [wh EXCEPT !.pc = "cooldown_ttl"]
    /\ UNCHANGED << conn_vars, list_vars, key_vars, local_vars, buffer_sessions, watcher,
                    pa, clock_vars, aux_vars, hist_vars >>

\* TTL key: the seconds left of a TTL kept in ticks, -2 for no key
ttl_reply(t) == IF t < 0 THEN t ELSE (t + 1) \div 2

\* Faulty variant of webhook_cooldown_ttl: when client.ttl raises, the key
\* client.get has just seen still counts.
webhook_cooldown_ttl_sticky ==
    /\ wh.pc = "cooldown_ttl"
    /\ wh' = IF ~store_up
             THEN [wh EXCEPT !.pc = "push", !.active = TRUE, !.ttl = -1,
                             !.cdread = "failed"]
             ELSE [wh EXCEPT !.pc = "push", !.active = TRUE, !.ttl = ttl_reply(cooldown),
                             !.cdread = "present", !.elem.cd = cd_epoch]
    /\ UNCHANGED << conn_vars, _redis_client, list_vars, key_vars, local_vars,
                    buffer_sessions, watcher, pa, clock_vars, aux_vars, hist_vars >>

\* is_agent_in_cooldown, lines 159-164: client.ttl(key); (True, ttl) unless it
\* raises.
webhook_cooldown_ttl ==
    /\ wh.pc = "cooldown_ttl"
    /\ wh' = IF ~store_up
             THEN [wh EXCEPT !.pc = "push", !.active = FALSE, !.ttl = -1,
                             !.cdread = "failed"]
             ELSE [wh EXCEPT !.pc = "push", !.active = TRUE, !.ttl = ttl_reply(cooldown),
                             !.cdread = "present", !.elem.cd = cd_epoch]
    /\ UNCHANGED << conn_vars, _redis_client, list_vars, key_vars, local_vars,
                    buffer_sessions, watcher, pa, clock_vars, aux_vars, hist_vars >>

\* History kept by the timed specification when a fragment lands in a buffer
\* that was_empty or not: the
\* burst it belongs to, whether the burst began with no watcher and no turn
\* under way, and whether every gap of the burst stayed under the quiet period.
Land(e, was_empty) ==
    IF timed
    THEN /\ last_push' = now
         /\ burst' = IF was_empty
                     THEN [frags |-> <<e>>, close |-> TRUE,
                           idle |-> ~buffer_sessions /\ \A p \in Procs : pa[p].pc = "idle"]
                     ELSE [burst EXCEPT !.frags = Append(@, e),
                              !.close = @ /\ now - last_push < StallLimit * PollInterval]
    ELSE UNCHANGED << last_push, burst >>

\* push_message_to_buffer, lines 63-66 and 74-76: the client, then either the
\* fallback's _local_buffer.get or the rpush, which creates the key without
\* a TTL when it is absent.  wh.key_ttl keeps the TTL the key had before.
push_message_to_buffer_start ==
    /\ wh.pc = "push"
    /\ _redis_client' = get_redis_client
    /\ IF get_redis_client = "None"
       THEN /\ wh' = [wh EXCEPT !.pc = "push_local", !.msgs = _local_buffer,
                                !.path = "local"]
            /\ UNCHANGED << msgbuf, msgbuf_ttl, last_push, burst >>
       ELSE IF store_up
       THEN /\ msgbuf' = Append(msgbuf, wh.elem)
            /\ msgbuf_ttl' = IF msgbuf_ttl = -2 THEN -1 ELSE msgbuf_ttl
            /\ wh' = [wh EXCEPT !.pc = "push_ttl", !.path = "redis",
                                !.key_ttl = msgbuf_ttl]
            /\ Land(wh.elem, msgbuf = <<>>)
       ELSE /\ wh' = [wh EXCEPT !.pc = "pushed", !.ret = FALSE, !.path = "rpush_error"]
            /\ UNCHANGED << msgbuf, msgbuf_ttl, last_push, burst >>
    /\ UNCHANGED << conn_vars, key_vars, local_vars, buffer_sessions, watcher, pa,
                    clock_vars, aux_vars, npush, turns, drained, accepted, cd_epoch >>

\* push_message_to_buffer, lines 67-72: a new list under the key, or an append
\* to the list object read at line 66.
push_message_to_buffer_local ==
    /\ wh.pc = "push_local"
    /\ IF wh.msgs = 0
       THEN /\ heap' = Append(heap, <<wh.elem>>)
            /\ _local_buffer' = Len(heap) + 1
       ELSE /\ heap' = [heap EXCEPT ![wh.msgs] = Append(@, wh.elem)]
            /\ UNCHANGED _local_buffer
    /\ Land(wh.elem, wh.msgs = 0)
    /\ wh' = [wh EXCEPT !.pc = "pushed", !.ret = TRUE]
    /\ accepted' = accepted \cup {wh.elem.id}
    /\ UNCHANGED << conn_vars, _redis_client, list_vars, key_vars, buffer_sessions,
                    watcher, pa, clock_vars, aux_vars, npush, turns, drained, cd_epoch >>

\* Faulty variant of push_message_to_buffer_ttl: expire is called after
\* every rpush, whatever TTL the key has.
push_message_to_buffer_ttl_always ==
    /\ wh.pc = "push_ttl"
    /\ wh' = IF ~store_up
             THEN [wh EXCEPT !.pc = "pushed", !.ret = FALSE, !.path = "ttl_error"]
             ELSE [wh EXCEPT !.pc = "push_expire"]
    /\ UNCHANGED << conn_vars, _redis_client, list_vars, key_vars, local_vars,
                    buffer_sessions, watcher, pa, clock_vars, aux_vars, npush, turns, drained,
                    accepted, last_push, burst, cd_epoch >>

\* push_message_to_buffer, line 78: client.ttl(key) in (-1, -2)
push_message_to_buffer_ttl ==
    /\ wh.pc = "push_ttl"
    /\ wh' = IF ~store_up
             THEN [wh EXCEPT !.pc = "pushed", !.ret = FALSE, !.path = "ttl_error"]
             ELSE IF msgbuf_ttl \in {-1, -2} THEN [wh EXCEPT !.pc = "push_expire"]
             ELSE [wh EXCEPT !.pc = "pushed", !.ret = TRUE]
    /\ accepted' = IF store_up /\ msgbuf_ttl \notin {-1, -2}
                   THEN accepted \cup {wh.elem.id} ELSE accepted
    /\ UNCHANGED << conn_vars, _redis_client, list_vars, key_vars, local_vars,
                    buffer_sessions, watcher, pa, clock_vars, aux_vars, npush, turns, drained,
                    last_push, burst, cd_epoch >>

\* push_message_to_buffer, line 79: client.expire(key, ttl_seconds); Redis
\* ignores it when the key is gone.
push_message_to_buffer_expire ==
    /\ wh.pc = "push_expire"
    /\ IF store_up
       THEN /\ msgbuf_ttl' = IF msgbuf = <<>> THEN -2 ELSE Ticks(ttl_seconds)
            /\ wh' = [wh EXCEPT !.pc = "pushed", !.ret = TRUE]
       ELSE /\ wh' = [wh EXCEPT !.pc = "pushed", !.ret = FALSE, !.path = "expire_error"]
            /\ UNCHANGED msgbuf_ttl
    /\ accepted' = IF store_up THEN accepted \cup {wh.elem.id} ELSE accepted
    /\ UNCHANGED << conn_vars, _redis_client, msgbuf, key_vars, local_vars,
                    buffer_sessions, watcher, pa, clock_vars, aux_vars, npush, turns, drained,
                    last_push, burst, cd_epoch >>

\* The lowest thread slot of S that runs nothing.
FreeSlot(S, f) == CHOOSE s \in S : f[s].pc = "idle" /\ \A r \in S : r < s => f[r].pc # "idle"

\* process_async(tel, msg) is entered by thread p with the text msg made of
\* the fragments frags.  The history keeps the turn, the cooldown in force
\* at that moment (0 for none), the cooldowns its fragments arrived under
\* and, once the store has answered it, the session check: its answer, its
\* time, its rank among the answered checks, and whether another check was
\* answered between its exists and its set.
process_async_call(p, msg, frags) ==
    /\ pa' = [pa EXCEPT ![p] = [PaIdle EXCEPT !.pc = "session", !.msg = msg]]
    /\ turns' = Append(turns, [by |-> p, ids |-> ids(frags), text |-> msg,
                               cd |-> IF cooldown = -2 THEN 0 ELSE cd_epoch,
                               frag_cd |-> {frags[k].cd : k \in 1..Len(frags)},
                               check |-> "none", at |-> -1, seq |-> 0,
                               overlap |-> FALSE])

\* The turn thread p is working on: the latest one it was handed.
TurnOf(p) == CHOOSE k \in 1..Len(turns) :
                 turns[k].by = p /\ \A j \in (k + 1)..Len(turns) : turns[j].by # p

\* Faulty variant of webhook_start_watcher: the thread is started without
\* the test of the marker at line 437.
webhook_start_watcher_untested ==
    /\ \E s \in Watchers : watcher[s].pc = "idle"
    /\ buffer_sessions' = TRUE
    /\ watcher' = [watcher EXCEPT ![FreeSlot(Watchers, watcher)] =
                       [WatcherIdle EXCEPT !.pc = "start"]]
    /\ wh' = [wh EXCEPT !.pc = "idle", !.marker = buffer_sessions, !.armed = TRUE]

\* webhook, lines 437-439: the marker is tested and, when clear, set and the
\* buffer_loop thread started.
webhook_start_watcher ==
    IF ~buffer_sessions
    THEN /\ \E s \in Watchers : watcher[s].pc = "idle"
         /\ buffer_sessions' = TRUE
         /\ watcher' = [watcher EXCEPT ![FreeSlot(Watchers, watcher)] =
                            [WatcherIdle EXCEPT !.pc = "start"]]
         /\ wh' = [wh EXCEPT !.pc = "idle", !.marker = buffer_sessions, !.armed = TRUE]
    ELSE /\ wh' = [wh EXCEPT !.pc = "idle", !.marker = buffer_sessions]
         /\ UNCHANGED << buffer_sessions, watcher >>

\* Faulty variant of webhook_after_push: the cooldown branch lacks its
\* `return` (line 429) and goes on to line 436.
webhook_after_push_no_return ==
    /\ wh.pc = "pushed"
    /\ IF wh.ret
       THEN /\ webhook_start_watcher
            /\ UNCHANGED << pa, turns >>
       ELSE /\ \E t \in Tasks : pa[t].pc = "idle"
            /\ process_async_call(FreeSlot(Tasks, pa), wh.elem.txt, <<wh.elem>>)
            /\ wh' = [wh EXCEPT !.pc = "idle", !.marker = buffer_sessions]
            /\ UNCHANGED << buffer_sessions, watcher >>
    /\ UNCHANGED << conn_vars, _redis_client, list_vars, key_vars, local_vars,
                    clock_vars, aux_vars, npush, drained, accepted, last_push, burst, cd_epoch >>

\* webhook, lines 427-429 and 436-443: what follows the push.  In cooldown the
\* result of the push is dropped; otherwise True arms a watcher unless the
\* marker is set, and False queues process_async(tel, txt) as a background
\* task, which the thread pool starts once the response is out.  The call
\* returns; what it did stays readable in wh until the next request.
webhook_after_push ==
    /\ wh.pc = "pushed"
    /\ IF wh.active
       THEN /\ wh' = [wh EXCEPT !.pc = "idle", !.marker = buffer_sessions]
            /\ UNCHANGED << buffer_sessions, watcher, pa, turns >>
       ELSE IF wh.ret
       THEN /\ webhook_start_watcher
            /\ UNCHANGED << pa, turns >>
       ELSE /\ \E t \in Tasks : pa[t].pc = "idle"
            /\ process_async_call(FreeSlot(Tasks, pa), wh.elem.txt, <<wh.elem>>)
            /\ wh' = [wh EXCEPT !.pc = "idle", !.marker = buffer_sessions]
            /\ UNCHANGED << buffer_sessions, watcher >>
    /\ UNCHANGED << conn_vars, _redis_client, list_vars, key_vars, local_vars,
                    clock_vars, aux_vars, npush, drained, accepted, last_push, burst, cd_epoch >>

\* ------------------------------------------------------------ buffer_loop
\* get_buffer_length: the fallback list's length without a client, llen with
\* one, 0 when llen raises.
get_buffer_length ==
    IF get_redis_client = "None"
    THEN (IF _local_buffer = 0 THEN 0 ELSE Len(heap[_local_buffer]))
    ELSE IF store_up THEN Len(msgbuf) ELSE 0

\* buffer_loop, lines 384-389: prev = get_buffer_length(n); stall = 0; the
\* first time.sleep(3.5).
buffer_loop_start(w) ==
    /\ watcher[w].pc = "start"
    /\ _redis_client' = get_redis_client
    /\ watcher' = [watcher EXCEPT ![w] = [@ EXCEPT !.pc = "sleeping",
                       !.prev = get_buffer_length, !.stall = 0,
                       !.last = get_buffer_length,
                       !.timer = Dur(PollInterval)]]
    /\ UNCHANGED << conn_vars, list_vars, key_vars, local_vars, buffer_sessions, wh, pa,
                    clock_vars, aux_vars, hist_vars >>

\* buffer_loop, lines 391-392: the counter and the reference length after a
\* sample curr.
next_stall(prev, stall, curr) == IF curr > prev THEN 0 ELSE stall + 1
next_prev(prev, curr) == IF curr > prev THEN curr ELSE prev

\* buffer_loop, lines 388-392: the sleep is over; one sample, then either the
\* next sleep or, with stall at 3, on to pop_all_messages.  `last` keeps the
\* sample for the history; the code keeps only prev.
buffer_loop_poll(w) ==
    /\ watcher[w].pc = "sleeping"
    /\ watcher[w].timer = 0
    /\ _redis_client' = get_redis_client
    /\ LET curr == get_buffer_length
           stall == next_stall(watcher[w].prev, watcher[w].stall, curr)
       IN
       watcher' = [watcher EXCEPT ![w] = [@ EXCEPT
                       !.prev = next_prev(watcher[w].prev, curr),
                       !.stall = stall,
                       !.last = curr,
                       !.pc = IF stall < StallLimit THEN "sleeping" ELSE "pop",
                       !.timer = IF stall < StallLimit THEN Dur(PollInterval) ELSE 0]]
    /\ UNCHANGED << conn_vars, list_vars, key_vars, local_vars, buffer_sessions, wh, pa,
                    clock_vars, aux_vars, hist_vars >>

\* pop_all_messages, lines 104-106 and 110-121: without a client the fallback's
\* _local_buffer.get(telefone) or []; with one, the MULTI/EXEC pipeline of
\* lrange and delete, which returns the list and removes the key in one
\* step, or [] when it raises.
pop_all_messages_start(w) ==
    /\ watcher[w].pc = "pop"
    /\ _redis_client' = get_redis_client
    /\ IF get_redis_client = "None"
       THEN /\ watcher' = [watcher EXCEPT ![w] = [@ EXCEPT !.pc = "pop_local",
                               !.ref = _local_buffer, !.msgs = <<>>]]
            /\ UNCHANGED << msgbuf, msgbuf_ttl >>
       ELSE IF store_up
       THEN /\ watcher' = [watcher EXCEPT ![w] = [@ EXCEPT !.pc = "join",
                               !.ref = 0, !.msgs = msgbuf]]
            /\ msgbuf' = <<>>
            /\ msgbuf_ttl' = -2
       ELSE /\ watcher' = [watcher EXCEPT ![w] = [@ EXCEPT !.pc = "join",
                               !.ref = 0, !.msgs = <<>>]]
            /\ UNCHANGED << msgbuf, msgbuf_ttl >>
    /\ UNCHANGED << conn_vars, key_vars, local_vars, buffer_sessions, wh, pa, clock_vars, aux_vars,
                    hist_vars >>

\* pop_all_messages, lines 107-109: _local_buffer.pop(telefone, None); the
\* caller is handed the list object read at line 106.
pop_all_messages_local(w) ==
    /\ watcher[w].pc = "pop_local"
    /\ _local_buffer' = 0
    /\ watcher' = [watcher EXCEPT ![w].pc = "join"]
    /\ UNCHANGED << conn_vars, _redis_client, list_vars, key_vars, heap, buffer_sessions,
                    wh, pa, clock_vars, aux_vars, hist_vars >>

\* The list buffer_loop holds in msgs: the fallback's list object as it is
\* now, or the list the pipeline returned.
watcher_msgs(w) == IF watcher[w].ref # 0 THEN heap[watcher[w].ref] ELSE watcher[w].msgs

\* Faulty variant of final_text: the blank fragments are joined in too.
final_text_unfiltered(msgs) == join(texts(msgs))

\* buffer_loop, line 395: " ".join([m for m in msgs if m.strip()])
final_text(msgs) == join(texts(nonblank(msgs)))

\* buffer_loop, lines 395-396: the join, and process_async(n, final) when the
\* text is not empty.
buffer_loop_join(w) ==
    /\ watcher[w].pc = "join"
    /\ LET msgs == watcher_msgs(w)
           final == final_text(msgs)
       IN
       /\ drained' = [i \in 1..MaxEvents |->
                         drained[i] + Cardinality({k \in 1..Len(msgs) : msgs[k].id = i})]
       /\ IF final # <<>>
          THEN /\ process_async_call(w, final, nonblank(msgs))
               /\ watcher' = [watcher EXCEPT ![w] = [@ EXCEPT !.pc = "dispatch",
                                  !.ref = 0, !.msgs = <<>>]]
          ELSE /\ watcher' = [watcher EXCEPT ![w] = [@ EXCEPT !.pc = "finally",
                                  !.ref = 0, !.msgs = <<>>]]
               /\ UNCHANGED << pa, turns >>
    /\ UNCHANGED << conn_vars, _redis_client, list_vars, key_vars, local_vars,
                    buffer_sessions, wh, clock_vars, aux_vars, npush, accepted, last_push, burst,
                    cd_epoch >>

\* Faulty variant of buffer_loop_finally: the marker is removed at the end of
\* the try block instead of in a finally clause.
buffer_loop_finally_in_try(w) ==
    /\ watcher[w].pc = "finally"
    /\ buffer_sessions' = IF watcher[w].raised THEN buffer_sessions ELSE FALSE
    /\ watcher' = [watcher EXCEPT ![w] = WatcherIdle]
    /\ exits' = Append(exits, IF watcher[w].raised THEN "raised" ELSE "returned")
    /\ UNCHANGED << conn_vars, _redis_client, list_vars, key_vars, local_vars, wh, pa,
                    clock_vars, edit_window, tool, run, pops, hist_vars >>

\* buffer_loop, lines 397-398: except: pass; finally: buffer_sessions.pop(...);
\* the thread ends.
buffer_loop_finally(w) ==
    /\ watcher[w].pc = "finally"
    /\ buffer_sessions' = FALSE
    /\ watcher' = [watcher EXCEPT ![w] = WatcherIdle]
    /\ exits' = Append(exits, IF watcher[w].raised THEN "raised" ELSE "returned")
    /\ UNCHANGED << conn_vars, _redis_client, list_vars, key_vars, local_vars, wh, pa,
                    clock_vars, edit_window, tool, run, pops, hist_vars >>

\* buffer_loop, lines 383-397: a statement of the try block raises while the
\* thread polls or drains; `except: pass` takes it to the finally clause.
\* The list a drain has handed over is dropped with it.
buffer_loop_raise(w) ==
    /\ watcher[w].pc \in {"start", "sleeping", "pop", "pop_local", "join"}
    /\ events < MaxEvents
    /\ events' = events + 1
    /\ watcher' = [watcher EXCEPT ![w] = [@ EXCEPT !.pc = "finally", !.raised = TRUE,
                                              !.timer = 0, !.ref = 0, !.msgs = <<>>]]
    /\ UNCHANGED << store_up, _redis_client, list_vars, key_vars, local_vars,
                    buffer_sessions, wh, pa, clock_vars, aux_vars, hist_vars >>

\* ---------------------------------------------------------- process_async
\* History: how many session checks the store has answered so far.
NumChecks == Cardinality({ k \in 1..Len(turns) : turns[k].seq > 0 })

\* History: the check of thread p's turn has been answered with result.
record_check(p, result) ==
    turns' = [turns EXCEPT ![TurnOf(p)] = [@ EXCEPT
                 !.check = result, !.at = now, !.seq = NumChecks + 1,
                 !.overlap = (NumChecks > pa[p].seen)]]

\* random.uniform(2.0, 4.0), in ticks
ReadingDelays == 4..8

\* check_and_refresh_session, lines 178-187: the client and client.exists(key).
\* Without a client the answer is True; the call is not guarded, so a
\* RedisError leaves process_async's try block for `except` and `finally`.
process_async_exists(p) ==
    /\ pa[p].pc = "session"
    /\ _redis_client' = get_redis_client
    /\ \E d \in ReadingDelays :
         pa' = [pa EXCEPT ![p] =
                   IF get_redis_client = "None"
                   THEN [@ EXCEPT !.check = "True", !.unavailable = TRUE,
                                  !.pc = "reading", !.timer = Dur(d)]
                   ELSE IF ~store_up
                   THEN [@ EXCEPT !.check = "raised", !.unavailable = TRUE,
                                  !.pc = "finally"]
                   ELSE [@ EXCEPT !.exists = (session_order # -2), !.seen = NumChecks,
                                  !.pc = "session_set"]]
    /\ UNCHANGED << conn_vars, list_vars, key_vars, local_vars, buffer_sessions, wh,
                    watcher, clock_vars, aux_vars, hist_vars >>

\* Faulty variant of check_and_refresh_session: a new session is not told
\* apart (line 193 missing).
check_and_refresh_session_true(exists) == "True"

\* check_and_refresh_session, lines 190-194: the answer, given what exists
\* returned.
check_and_refresh_session(exists) == IF exists THEN "True" ELSE "False"

\* check_and_refresh_session, line 190: the TTL client.set(key, "1", ex=...)
\* leaves on the key.
session_set(minutes) == Ticks(minutes * 60)

\* Faulty variant of process_async_set: the key is written only when it
\* was absent, so a check of a live session does not renew it.
process_async_set_once(p) ==
    /\ pa[p].pc = "session_set"
    /\ \E d \in ReadingDelays :
         IF store_up
         THEN /\ session_order' = IF pa[p].exists THEN session_order
                                  ELSE session_set(ttl_minutes)
              /\ pa' = [pa EXCEPT ![p] = [@ EXCEPT
                            !.check = check_and_refresh_session(pa[p].exists),
                            !.pc = "reading", !.timer = Dur(d)]]
              /\ record_check(p, check_and_refresh_session(pa[p].exists))
         ELSE /\ pa' = [pa EXCEPT ![p] = [@ EXCEPT !.check = "raised",
                            !.unavailable = TRUE, !.pc = "finally"]]
              /\ UNCHANGED << session_order, turns >>
    /\ UNCHANGED << conn_vars, _redis_client, list_vars, cooldown, local_vars,
                    buffer_sessions, wh, watcher, clock_vars, aux_vars, npush, drained, accepted,
                    last_push, burst, cd_epoch >>

\* check_and_refresh_session, lines 190-194, and process_async, lines 353-360:
\* the key is set with the full TTL whatever exists returned; then the
\* reading delay.
process_async_set(p) ==
    /\ pa[p].pc = "session_set"
    /\ \E d \in ReadingDelays :
         IF store_up
         THEN /\ session_order' = session_set(ttl_minutes)
              /\ pa' = [pa EXCEPT ![p] = [@ EXCEPT
                            !.check = check_and_refresh_session(pa[p].exists),
                            !.pc = "reading", !.timer = Dur(d)]]
              /\ record_check(p, check_and_refresh_session(pa[p].exists))
         ELSE /\ pa' = [pa EXCEPT ![p] = [@ EXCEPT !.check = "raised",
                            !.unavailable = TRUE, !.pc = "finally"]]
              /\ UNCHANGED << session_order, turns >>
    /\ UNCHANGED << conn_vars, _redis_client, list_vars, cooldown, local_vars,
                    buffer_sessions, wh, watcher, clock_vars, aux_vars, npush, drained, accepted,
                    last_push, burst, cd_epoch >>

\* process_async, lines 363-372: composing, run_agent, paused, and the pause
\* of 0.5 s before the send.  send_presence swallows its failures and
\* run_agent returns a text whatever happens inside it.
process_async_engine(p) ==
    /\ pa[p].pc = "reading"
    /\ pa[p].timer = 0
    /\ pa' = [pa EXCEPT ![p] = [@ EXCEPT !.pc = "pause", !.engine = TRUE,
                                         !.timer = Dur(1)]]
    /\ UNCHANGED << conn_vars, _redis_client, list_vars, key_vars, local_vars,
                    buffer_sessions, wh, watcher, clock_vars, aux_vars, hist_vars >>

\* process_async, line 374: send_whatsapp_message(tel, txt)
process_async_send(p) ==
    /\ pa[p].pc = "pause"
    /\ pa[p].timer = 0
    /\ pa' = [pa EXCEPT ![p].pc = "finally"]
    /\ UNCHANGED << conn_vars, _redis_client, list_vars, key_vars, local_vars,
                    buffer_sessions, wh, watcher, clock_vars, aux_vars, hist_vars >>

\* process_async, lines 378-380: the cleanup; the call returns, to buffer_loop
\* when the watcher made it.
process_async_finally(p) ==
    /\ pa[p].pc = "finally"
    /\ pa' = [pa EXCEPT ![p] = PaIdle]
    /\ watcher' = IF p \in Watchers THEN [watcher EXCEPT ![p].pc = "finally"] ELSE watcher
    /\ UNCHANGED << conn_vars, _redis_client, list_vars, key_vars, local_vars,
                    buffer_sessions, wh, clock_vars, aux_vars, hist_vars >>

\* process_async, lines 348-376: a statement of the try block raises while
\* the turn is dispatched; `except Exception` logs it and the finally clause
\* follows.
process_async_raise(p) ==
    /\ pa[p].pc \in {"session", "session_set", "reading", "pause"}
    /\ events < MaxEvents
    /\ events' = events + 1
    /\ pa' = [pa EXCEPT ![p] = [@ EXCEPT !.pc = "finally", !.timer = 0]]
    /\ UNCHANGED << store_up, _redis_client, list_vars, key_vars, local_vars,
                    buffer_sessions, wh, watcher, clock_vars, aux_vars, hist_vars >>

\* ------------------------------------------------------------ environment
\* The Redis server stops answering, or answers again.
store_flip ==
    /\ events < MaxEvents
    /\ events' = events + 1
    /\ store_up' = ~store_up
    /\ UNCHANGED << _redis_client, list_vars, key_vars, local_vars, buffer_sessions, wh,
                    watcher, pa, clock_vars, aux_vars, hist_vars >>

\* set_agent_cooldown(telefone): an operator takes the conversation over.
\* Nothing is kept without a client or when client.set raises.
set_agent_cooldown ==
    /\ events < MaxEvents
    /\ events' = events + 1
    /\ _redis_client' = get_redis_client
    /\ IF get_redis_client # "None" /\ store_up
       THEN /\ cooldown' = Ticks(cooldown_seconds)
            /\ cd_epoch' = cd_epoch + 1
       ELSE UNCHANGED << cooldown, cd_epoch >>
    /\ UNCHANGED << store_up, list_vars, session_order, local_vars, buffer_sessions, wh,
                    watcher, pa, clock_vars, aux_vars, npush, turns, drained, accepted, last_push,
                    burst >>

\* Redis drops the cooldown key when its TTL runs out.
cooldown_expire ==
    /\ cooldown # -2
    /\ cooldown' = -2
    /\ UNCHANGED << conn_vars, _redis_client, list_vars, session_order, local_vars,
                    buffer_sessions, wh, watcher, pa, clock_vars, aux_vars, hist_vars >>

\* ------------------------------------------------------ the specification
Webhook ==
    \/ \E txt \in Fragments : webhook_receive(txt)
    \/ webhook_cooldown_get
    \/ webhook_cooldown_ttl
    \/ push_message_to_buffer_start
    \/ push_message_to_buffer_local
    \/ push_message_to_buffer_ttl
    \/ push_message_to_buffer_expire
    \/ webhook_after_push

BufferLoop ==
    \E w \in Watchers :
        \/ buffer_loop_start(w)
        \/ buffer_loop_poll(w)
        \/ pop_all_messages_start(w)
        \/ pop_all_messages_local(w)
        \/ buffer_loop_join(w)
        \/ buffer_loop_finally(w)

ProcessAsync ==
    \E p \in Procs :
        \/ process_async_exists(p)
        \/ process_async_set(p)
        \/ process_async_engine(p)
        \/ process_async_send(p)
        \/ process_async_finally(p)

\* Every interleaving of the event loop, the watcher threads and the
\* thread-pool tasks, with the store failing and the TTL of the cooldown
\* key running out at any moment.  The lifetimes of the buffer key (300 s)
\* and of the session key (40 min) are not followed here.
Next ==
    \/ Webhook
    \/ BufferLoop
    \/ ProcessAsync
    \/ store_flip
    \/ set_agent_cooldown
    \/ cooldown_expire

Spec == Init /\ [][Next]_vars

\* The same with exceptions raised at any statement of buffer_loop and of
\* process_async.
NextRaise ==
    \/ Next
    \/ \E w \in Watchers : buffer_loop_raise(w)
    \/ \E p \in Procs : process_async_raise(p)

SpecRaise == Init /\ [][NextRaise]_vars

\* ------------------------------------------------------------------- time
\* What Redis reports d ticks later for a TTL of t: a key is gone once its
\* TTL has run out.
ttl_after(t, d) == IF t < 0 THEN t ELSE IF t > d THEN t - d ELSE -2

\* d ticks pass, up to the tick `limit`.  Nothing that is ready to run is
\* kept waiting: the webhook call has returned and every thread is asleep
\* for at least d more ticks, or waiting for the turn it handed over.
Advance(d, limit) ==
    /\ now + d <= limit
    /\ wh.pc = "idle"
    /\ \A w \in Watchers :
          \/ watcher[w].pc \in {"idle", "dispatch"}
          \/ watcher[w].pc = "sleeping" /\ watcher[w].timer >= d
    /\ \A p \in Procs :
          \/ pa[p].pc = "idle"
          \/ pa[p].pc \in {"reading", "pause"} /\ pa[p].timer >= d
    /\ now' = now + d
    /\ watcher' = [w \in Watchers |->
                      IF watcher[w].pc = "sleeping"
                      THEN [watcher[w] EXCEPT !.timer = @ - d] ELSE watcher[w]]
    /\ pa' = [p \in Procs |->
                 IF pa[p].pc \in {"reading", "pause"}
                 THEN [pa[p] EXCEPT !.timer = @ - d] ELSE pa[p]]
    /\ msgbuf_ttl' = ttl_after(msgbuf_ttl, d)
    /\ msgbuf' = IF ttl_after(msgbuf_ttl, d) = -2 THEN <<>> ELSE msgbuf
    /\ cooldown' = ttl_after(cooldown, d)
    /\ session_order' = ttl_after(session_order, d)
    /\ edit_window' = ttl_after(edit_window, d)
    /\ UNCHANGED << conn_vars, _redis_client, local_vars, buffer_sessions, wh, timed,
                    hist_vars, tool, run, exits, pops >>

\* Half a second passes.  The clock starts with the first request.
Tick == npush >= 1 /\ Advance(1, MaxTime)

\* The program with its sleeps measured, the store staying as it was found
\* at the start and no operator taking over: requests arrive at any tick and
\* whatever is ready runs before the next tick.  The cooldown key is never
\* there, so is_agent_in_cooldown ends at its client.get.
NextTimed ==
    \/ \E txt \in Fragments : webhook_receive(txt)
    \/ webhook_cooldown_get
    \/ push_message_to_buffer_start
    \/ push_message_to_buffer_local
    \/ push_message_to_buffer_ttl
    \/ push_message_to_buffer_expire
    \/ webhook_after_push
    \/ BufferLoop
    \/ ProcessAsync
    \/ Tick

SpecTimed == InitTimed /\ [][NextTimed]_vars

\* ------------------------------------------------------------------ burst
\* webhook, lines 409-424, for the requests of one long burst: the burst
\* begins with the first request and goes on with one request half a
\* second before the poll at which the watcher would count its third
\* sample without growth.
burst_receive ==
    /\ wh.pc = "idle"
    /\ \/ npush = 0
       \/ /\ last_push # now
          /\ \E w \in Watchers :
                /\ watcher[w].pc = "sleeping"
                /\ watcher[w].timer = 1
                /\ watcher[w].stall = StallLimit - 1
    /\ UNCHANGED events
    /\ npush' = npush + 1
    /\ wh' = [WhIdle EXCEPT !.pc = "cooldown",
                             !.elem = [id |-> npush + 1, txt |-> <<"a">>, cd |-> 0]]
    /\ UNCHANGED << store_up, _redis_client, list_vars, key_vars, local_vars,
                    buffer_sessions, watcher, pa, clock_vars, aux_vars, turns, drained, accepted,
                    last_push, burst, cd_epoch >>

\* Half a second passes while a watcher or a turn is under way.
TickBurst ==
    /\ \/ \E w \in Watchers : watcher[w].pc # "idle"
       \/ \E p \in Procs : pa[p].pc # "idle"
    /\ Advance(1, MaxBurstTime)

\* The program with its sleeps and the lifetime of the buffer key measured,
\* under a burst that lasts as long as the sender likes: each request of
\* the burst comes just in time to postpone the drain, and the sender stops
\* when they choose.  The store stays as it was found at the start.
NextBurst ==
    \/ burst_receive
    \/ webhook_cooldown_get
    \/ push_message_to_buffer_start
    \/ push_message_to_buffer_local
    \/ push_message_to_buffer_ttl
    \/ push_message_to_buffer_expire
    \/ webhook_after_push
    \/ BufferLoop
    \/ ProcessAsync
    \/ TickBurst

SpecBurst == InitTimed /\ [][NextBurst]_vars

\* ---------------------------------------------------------------- session
\* A turn reaches process_async(tel, msg), from buffer_loop or from the
\* webhook's background task.
process_async_turn ==
    /\ events < MaxEvents
    /\ \E t \in Tasks : pa[t].pc = "idle"
    /\ events' = events + 1
    /\ process_async_call(FreeSlot(Tasks, pa), <<"a">>, <<>>)
    /\ UNCHANGED << store_up, _redis_client, list_vars, key_vars, local_vars,
                    buffer_sessions, wh, watcher, clock_vars, aux_vars, npush, drained, accepted,
                    last_push, burst, cd_epoch >>

\* StepMinutes minutes pass between two turns.
Elapse == Advance(Ticks(60 * StepMinutes), Ticks(60 * MaxMinutes))

\* The session window over the minutes: turns reach process_async, one
\* after the other or while another is under way, with any number of steps
\* of StepMinutes between them, and the store failing at any moment.  The
\* seconds a turn takes are not counted.
NextSession ==
    \/ process_async_turn
    \/ ProcessAsync
    \/ store_flip
    \/ Elapse

SpecSession == Init /\ [][NextSession]_vars

\* ------------------------------------------------------------ order tools
\* Texts are sequences of words.  What the orders API or the HTTP library
\* puts into an error text is theirs to choose.
Details == { <<"campo", "itens", "ausente">>, <<"Pedido", "sem", "SUCESSO">> }

\* The request bodies the agent hands to pedidos_tool: a JSON object with
\* the phone number, one without, and a text that is not JSON.
Bodies == { "with_tel", "no_tel", "invalid" }

\* What requests.post meets: 2xx with a JSON body, 400/422, or an exception
\* (transport error, other status, unreadable body).
HttpOutcomes == { "ok", "rejected", "transport" }

\* pedidos(json_body), lines 45-62: the text returned for each outcome.
pedidos(body, http, detail) ==
    IF body = "invalid" THEN <<"Erro:", "nao", "e", "um", "JSON", "valido">>
    ELSE IF http = "rejected"
    THEN <<"ERRO", "API:", "formato", "incorreto.", "Detalhes:">> \o detail
             \o <<"Corrija", "o", "JSON">>
    ELSE IF http = "ok" THEN <<"check_mark", "Pedido", "enviado", "com", "sucesso">>
    ELSE <<"Erro", "ao", "enviar", "pedido:">> \o detail

\* str.lower() on a word
lower(w) == CASE w = "SUCESSO" -> "sucesso"
              [] w = "Pedido" -> "pedido"
              [] w = "ERRO" -> "erro"
              [] w = "Erro" -> "erro"
              [] w = "Erro:" -> "erro:"
              [] w = "API:" -> "api:"
              [] w = "Detalhes:" -> "detalhes:"
              [] w = "Corrija" -> "corrija"
              [] w = "JSON" -> "json"
              [] OTHER -> w

\* pedidos_tool, line 54: "sucesso" in resultado.lower() or the check mark
\* in resultado
success_marker(resultado) ==
    \E i \in 1..Len(resultado) :
        lower(resultado[i]) = "sucesso" \/ resultado[i] = "check_mark"

\* set_order_edit_window, line 209: the TTL client.set(key, "1", ex=minutes * 60)
\* leaves on the key.
set_order_edit_window(minutes) == Ticks(minutes * 60)

\* pedidos_tool(json_body), lines 50-61: the order is posted; when the text
\* that comes back carries the success marker and the body parses and
\* names a phone number, set_order_edit_window(tel, minutes=10) is
\* called, which keeps nothing without a client or when client.set raises.
pedidos_tool(body, http, detail) ==
    /\ events < MaxEvents
    /\ events' = events + 1
    /\ LET resultado == pedidos(body, http, detail)
           called == success_marker(resultado) /\ body = "with_tel"
           kept == called /\ get_redis_client # "None" /\ store_up
       IN
       /\ _redis_client' = IF called THEN get_redis_client ELSE _redis_client
       /\ edit_window' = IF kept THEN set_order_edit_window(edit_minutes) ELSE edit_window
       /\ tool' = [tool EXCEPT
                      !.outcome = IF body = "invalid" THEN "invalid_json" ELSE http,
                      !.marked = success_marker(resultado),
                      !.set_called = called,
                      !.opened_at = IF kept THEN now ELSE @,
                      !.trues = IF kept THEN 0 ELSE @]
    /\ UNCHANGED << store_up, list_vars, key_vars, local_vars, buffer_sessions, wh,
                    watcher, pa, clock_vars, hist_vars, run, exits, pops >>

\* Faulty variant of check_edit_window_tool: the read renews a live window.
check_edit_window_tool_renewing ==
    /\ _redis_client' = get_redis_client
    /\ LET result == IF get_redis_client = "None" THEN "False"
                     ELSE IF ~store_up THEN "raised"
                     ELSE IF edit_window # -2 THEN "True" ELSE "False"
       IN
       /\ tool' = [tool EXCEPT
                      !.read = [result |-> result, at |-> now, opened |-> tool.opened_at,
                                unavailable |-> get_redis_client = "None" \/ ~store_up],
                      !.trues = IF result = "True" /\ @ < 2 THEN @ + 1 ELSE @]
       /\ edit_window' = IF result = "True" THEN set_order_edit_window(edit_minutes)
                         ELSE edit_window
    /\ UNCHANGED << conn_vars, list_vars, key_vars, local_vars, buffer_sessions, wh,
                    watcher, pa, clock_vars, hist_vars, run, exits, pops >>

\* check_edit_window_tool(telefone), lines 68-73, and is_order_editable, lines
\* 216-227: False without a client; otherwise bool(client.exists(key)), a
\* call no try guards, so that a RedisError goes up to the caller.
check_edit_window_tool ==
    /\ _redis_client' = get_redis_client
    /\ LET result == IF get_redis_client = "None" THEN "False"
                     ELSE IF ~store_up THEN "raised"
                     ELSE IF edit_window # -2 THEN "True" ELSE "False"
       IN
       tool' = [tool EXCEPT
                   !.read = [result |-> result, at |-> now, opened |-> tool.opened_at,
                             unavailable |-> get_redis_client = "None" \/ ~store_up],
                   !.trues = IF result = "True" /\ @ < 2 THEN @ + 1 ELSE @]
    /\ UNCHANGED << conn_vars, list_vars, key_vars, local_vars, buffer_sessions, wh,
                    watcher, pa, clock_vars, hist_vars, edit_window, run, exits, pops >>

\* alterar_tool(telefone, json_body), lines 63-66, and alterar, lines 65-82 of
\* http_tools.py: json.loads(json_body), then requests.put to the orders
\* back-end.  Nothing reads the edit window; a body that does not parse
\* raises before the request.  tool.alterar keeps whether the request went
\* out and whether the window's key was there at that time.
alterar_tool(body) ==
    /\ tool' = [tool EXCEPT !.alterar =
                    IF body = "invalid" THEN "not_sent"
                    ELSE IF edit_window # -2 THEN "sent_open" ELSE "sent_closed"]
    /\ UNCHANGED << conn_vars, _redis_client, list_vars, key_vars, local_vars,
                    buffer_sessions, wh, watcher, pa, clock_vars, hist_vars, edit_window,
                    run, exits, pops >>

\* EditStepMinutes minutes pass between two tool calls.
ElapseOrder == Advance(Ticks(60 * EditStepMinutes), Ticks(60 * MaxEditMinutes))

\* The edit window over the minutes: the agent submits orders and asks
\* whether the order can still be edited, in any order and at any time, with
\* the store failing at any moment.
NextOrder ==
    \/ \E body \in Bodies, http \in HttpOutcomes, detail \in Details :
           pedidos_tool(body, http, detail)
    \/ check_edit_window_tool
    \/ \E body \in Bodies : alterar_tool(body)
    \/ store_flip
    \/ ElapseOrder

SpecOrder == Init /\ [][NextOrder]_vars

\* ------------------------------------------------- one turn, step by step
\* Texts are sequences of characters here.  The replies the engine may give:
\* "a|||b", " a ||| b ", "a||||b", "|||", "a||| |||b", "a|b", " a ",
\* "a|||b|||c" and the empty text.
Replies ==
    { <<"a", "|", "|", "|", "b">>,
      <<" ", "a", " ", "|", "|", "|", " ", "b", " ">>,
      <<"a", "|", "|", "|", "|", "b">>,
      <<"|", "|", "|">>,
      <<"a", "|", "|", "|", " ", "|", "|", "|", "b">>,
      <<"a", "|", "b">>,
      <<" ", "a", " ">>,
      <<"a", "|", "|", "|", "b", "|", "|", "|", "c">>,
      <<>> }

\* run_agent_langgraph, line 212: "Erro no sistema."
ErroNoSistema ==
    <<"E", "r", "r", "o", " ", "n", "o", " ", "s", "i", "s", "t", "e", "m", "a", ".">>

\* run_agent_langgraph, line 199: "Desculpe, erro técnico."
ErroTecnico ==
    <<"D", "e", "s", "c", "u", "l", "p", "e", ",", " ", "e", "r", "r", "o", " ",
      "t", "e", "c", "n", "i", "c", "o", ".">>

\* What agent.invoke does: a state with messages, something else, or an
\* exception.
EngineOutcomes == { "ok", "no_messages", "raised" }

\* run_agent_langgraph(telefone, mensagem), lines 153-212: the dict returned.
\* Every exception of the engine ends in the except clause of line 210.
run_agent(engine, reply) ==
    IF engine = "raised" THEN [output |-> ErroNoSistema, error |-> TRUE]
    ELSE IF engine = "no_messages" THEN [output |-> ErroTecnico, error |-> FALSE]
    ELSE [output |-> reply, error |-> FALSE]

\* send_whatsapp_message, line 309: the separator
Delim == <<"|", "|", "|">>

\* str.find: the first place at or after i where sep starts in s, 0 when none
RECURSIVE find(_, _, _)
find(s, sep, i) ==
    IF i + Len(sep) - 1 > Len(s) THEN 0
    ELSE IF SubSeq(s, i, i + Len(sep) - 1) = sep THEN i
    ELSE find(s, sep, i + 1)

\* str.split(sep): the pieces between the occurrences of sep, found from
\* left to right
RECURSIVE split(_, _)
split(s, sep) ==
    LET j == find(s, sep, 1)
    IN IF j = 0 THEN << s >>
       ELSE << SubSeq(s, 1, j - 1) >> \o split(SubSeq(s, j + Len(sep), Len(s)), sep)

\* str.strip(): without the blanks at either end
RECURSIVE strip(_)
strip(s) ==
    IF s = <<>> THEN s
    ELSE IF Head(s) = " " THEN strip(Tail(s))
    ELSE IF s[Len(s)] = " " THEN strip(SubSeq(s, 1, Len(s) - 1))
    ELSE s

\* send_whatsapp_message, lines 309-312: the messages a text is sent as
message_parts(mensagem) ==
    IF find(mensagem, Delim, 1) # 0
    THEN LET parts == split(mensagem, Delim)
             stripped == [k \in 1..Len(parts) |-> strip(parts[k])]
         IN SelectSeq(stripped, LAMBDA m : m # <<>>)
    ELSE << mensagem >>

\* send_whatsapp_message, line 319: random.uniform(1.0, 2.5), in ticks
PacingDelays == { Ticks(1), 3, 5 }

\* How long a POST to the gateway may take, in ticks (timeout=10)
PostDurations == { 0, 2 }

\* Faulty variant of pacing: the pause comes before every message.
pacing_always(i) == PacingDelays

\* send_whatsapp_message, lines 317-319: the pause before message i (from 0)
pacing(i) == IF i > 0 THEN PacingDelays ELSE { 0 }

\* Faulty variant of send_presence: the POST is not inside try/except.
send_presence_unguarded(base, ok) ==
    IF ~base THEN "skipped" ELSE IF ok THEN "sent" ELSE "raised"

\* send_presence(num, type_), lines 332-345: nothing without a base URL; the
\* POST, and `except: pass` when it fails.
send_presence(base, ok) ==
    IF ~base THEN "skipped" ELSE IF ok THEN "sent" ELSE "swallowed"

\* process_async, line 356: the note put before the text of a turn whose
\* session is not active, as one character of the text
SystemNote == << "[SISTEMA: A sessao anterior expirou ...]" >>

\* Faulty variant of mensagem_final: the note is put before every text.
mensagem_final_always(sessao_ativa, msg) == SystemNote \o << " " >> \o msg

\* process_async, lines 353-356: the text handed to run_agent
mensagem_final(sessao_ativa, msg) ==
    IF sessao_ativa = "False" THEN SystemNote \o << " " >> \o msg ELSE msg

RunStart(base, msg) ==
    [pc |-> "check", base |-> base, exists |-> FALSE, sessao |-> "none",
     msg |-> msg, given |-> <<>>, engine |-> "none", txt |-> <<>>, presence |-> <<>>,
     called |-> FALSE, msgs |-> <<>>, i |-> 0, slept |-> -1, clock |-> 0,
     sends |-> <<>>, sendret |-> "none", raised |-> "none", outcome |-> "none"]

\* process_async(tel, msg) is called: by buffer_loop, or as a background
\* task.  base is whether get_api_base_url() gives a gateway address, msg the
\* text of the turn.
pa_call(base, msg) ==
    /\ run.pc \in {"idle", "done"}
    /\ events < MaxEvents
    /\ events' = events + 1
    /\ run' = RunStart(base, msg)
    /\ UNCHANGED << store_up, _redis_client, list_vars, key_vars, local_vars,
                    buffer_sessions, wh, watcher, pa, clock_vars, hist_vars,
                    edit_window, tool, exits, pops >>

\* process_async, line 352, check_and_refresh_session lines 178-187: the client
\* and client.exists(key); a RedisError leaves the try block.
pa_exists ==
    /\ run.pc = "check"
    /\ _redis_client' = get_redis_client
    /\ run' = IF get_redis_client = "None"
              THEN [run EXCEPT !.sessao = "True",
                               !.given = mensagem_final("True", run.msg),
                               !.pc = "sleep_read"]
              ELSE IF ~store_up
              THEN [run EXCEPT !.sessao = "raised", !.raised = "session", !.pc = "finally"]
              ELSE [run EXCEPT !.exists = (session_order # -2), !.pc = "check_set"]
    /\ UNCHANGED << conn_vars, list_vars, key_vars, local_vars, buffer_sessions, wh,
                    watcher, pa, clock_vars, hist_vars, edit_window, tool, exits, pops >>

\* check_and_refresh_session, lines 190-194, and process_async, lines 353-356:
\* the key is set, and a session that is not active puts the [SISTEMA: ...]
\* note before the text.
pa_set ==
    /\ run.pc = "check_set"
    /\ IF store_up
       THEN /\ session_order' = session_set(ttl_minutes)
            /\ run' = [run EXCEPT
                          !.sessao = check_and_refresh_session(run.exists),
                          !.given = mensagem_final(check_and_refresh_session(run.exists),
                                                   run.msg),
                          !.pc = "sleep_read"]
       ELSE /\ run' = [run EXCEPT !.sessao = "raised", !.raised = "session",
                                  !.pc = "finally"]
            /\ UNCHANGED session_order
    /\ UNCHANGED << conn_vars, _redis_client, list_vars, cooldown, local_vars,
                    buffer_sessions, wh, watcher, pa, clock_vars, hist_vars,
                    edit_window, tool, exits, pops >>

\* process_async, lines 359-363: the reading delay, then
\* send_presence(num, "composing"); ok is whether the gateway takes the POST.
pa_composing(ok) ==
    /\ run.pc = "sleep_read"
    /\ IF ok \/ ~run.base THEN UNCHANGED events
       ELSE events < MaxEvents /\ events' = events + 1
    /\ LET r == send_presence(run.base, ok)
       IN run' = [run EXCEPT
                     !.presence = Append(@, [type |-> "composing", where |-> "try",
                                             result |-> r]),
                     !.raised = IF r = "raised" THEN "composing" ELSE @,
                     !.pc = IF r = "raised" THEN "finally" ELSE "engine"]
    /\ UNCHANGED << store_up, _redis_client, list_vars, key_vars, local_vars,
                    buffer_sessions, wh, watcher, pa, clock_vars, hist_vars,
                    edit_window, tool, exits, pops >>

\* Faulty variant of pa_run_agent: the engine's exception is not caught.
pa_run_agent_raising(engine, reply) ==
    /\ run.pc = "engine"
    /\ engine = "ok" \/ reply = <<>>
    /\ run' = IF engine = "raised"
              THEN [run EXCEPT !.engine = engine, !.raised = "engine", !.pc = "finally"]
              ELSE [run EXCEPT !.engine = engine,
                               !.txt = run_agent(engine, reply).output,
                               !.pc = "paused"]
    /\ UNCHANGED << conn_vars, _redis_client, list_vars, key_vars, local_vars,
                    buffer_sessions, wh, watcher, pa, clock_vars, hist_vars,
                    edit_window, tool, exits, pops >>

\* process_async, lines 366-367: res = run_agent(tel, mensagem_final);
\* txt = res.get("output", ...)
pa_run_agent(engine, reply) ==
    /\ run.pc = "engine"
    /\ engine = "ok" \/ reply = <<>>
    /\ run' = [run EXCEPT !.engine = engine,
                          !.txt = run_agent(engine, reply).output,
                          !.pc = "paused"]
    /\ UNCHANGED << conn_vars, _redis_client, list_vars, key_vars, local_vars,
                    buffer_sessions, wh, watcher, pa, clock_vars, hist_vars,
                    edit_window, tool, exits, pops >>

\* process_async, lines 370-372: send_presence(num, "paused") and the pause
\* of 0.5 s.
pa_paused(ok) ==
    /\ run.pc = "paused"
    /\ IF ok \/ ~run.base THEN UNCHANGED events
       ELSE events < MaxEvents /\ events' = events + 1
    /\ LET r == send_presence(run.base, ok)
       IN run' = [run EXCEPT
                     !.presence = Append(@, [type |-> "paused", where |-> "try",
                                             result |-> r]),
                     !.raised = IF r = "raised" THEN "paused" ELSE @,
                     !.pc = IF r = "raised" THEN "finally" ELSE "send"]
    /\ UNCHANGED << store_up, _redis_client, list_vars, key_vars, local_vars,
                    buffer_sessions, wh, watcher, pa, clock_vars, hist_vars,
                    edit_window, tool, exits, pops >>

\* send_whatsapp_message, lines 297-312: False without a base URL; the
\* messages the text is sent as.  run.clock counts the ticks since the call.
send_whatsapp_message_call ==
    /\ run.pc = "send"
    /\ run' = IF ~run.base
              THEN [run EXCEPT !.called = TRUE, !.sendret = "False", !.pc = "finally"]
              ELSE [run EXCEPT !.called = TRUE, !.msgs = message_parts(run.txt),
                               !.i = 0, !.slept = -1, !.clock = 0, !.pc = "loop"]
    /\ UNCHANGED << conn_vars, _redis_client, list_vars, key_vars, local_vars,
                    buffer_sessions, wh, watcher, pa, clock_vars, hist_vars,
                    edit_window, tool, exits, pops >>

\* send_whatsapp_message, lines 315-319: the next message of the loop and the
\* pause before it; line 323, return True, after the last one.
send_whatsapp_message_sleep ==
    /\ run.pc = "loop"
    /\ run.slept = -1
    /\ IF run.i = Len(run.msgs)
       THEN run' = [run EXCEPT !.sendret = "True", !.pc = "finally"]
       ELSE \E d \in pacing(run.i) :
               run' = [run EXCEPT !.slept = d, !.clock = @ + d]
    /\ UNCHANGED << conn_vars, _redis_client, list_vars, key_vars, local_vars,
                    buffer_sessions, wh, watcher, pa, clock_vars, hist_vars,
                    edit_window, tool, exits, pops >>

\* send_whatsapp_message, line 322: requests.post(...) is entered.
send_whatsapp_message_post ==
    /\ run.pc = "loop"
    /\ run.slept # -1
    /\ run' = [run EXCEPT
                  !.sends = Append(@, [text |-> run.msgs[run.i + 1], slept |-> run.slept,
                                       begun |-> run.clock, returned |-> -1,
                                       ok |-> FALSE]),
                  !.pc = "posting"]
    /\ UNCHANGED << conn_vars, _redis_client, list_vars, key_vars, local_vars,
                    buffer_sessions, wh, watcher, pa, clock_vars, hist_vars,
                    edit_window, tool, exits, pops >>

\* send_whatsapp_message, lines 322-326: requests.post returns after d ticks,
\* or raises, and then `except Exception` returns False.
send_whatsapp_message_posted(ok, d) ==
    /\ run.pc = "posting"
    /\ IF ok THEN UNCHANGED events
       ELSE events < MaxEvents /\ events' = events + 1
    /\ run' = [run EXCEPT
                  !.sends[Len(run.sends)] = [@ EXCEPT !.returned = run.clock + d,
                                                      !.ok = ok],
                  !.clock = @ + d,
                  !.i = @ + 1,
                  !.slept = -1,
                  !.sendret = IF ok THEN @ ELSE "False",
                  !.pc = IF ok THEN "loop" ELSE "finally"]
    /\ UNCHANGED << store_up, _redis_client, list_vars, key_vars, local_vars,
                    buffer_sessions, wh, watcher, pa, clock_vars, hist_vars,
                    edit_window, tool, exits, pops >>

\* process_async, lines 366 and 374: an exception comes out of run_agent or
\* of send_whatsapp_message all the same; `except Exception` logs it.
pa_raise ==
    /\ run.pc \in {"engine", "send"}
    /\ events < MaxEvents
    /\ events' = events + 1
    /\ run' = [run EXCEPT !.raised = run.pc, !.pc = "finally"]
    /\ UNCHANGED << store_up, _redis_client, list_vars, key_vars, local_vars,
                    buffer_sessions, wh, watcher, pa, clock_vars, hist_vars,
                    edit_window, tool, exits, pops >>

\* Faulty variant of pa_finally: the paused signal is the last statement of
\* the try block instead of a finally clause.
pa_finally_in_try(ok) ==
    /\ run.pc = "finally"
    /\ IF ok \/ ~run.base THEN UNCHANGED events
       ELSE events < MaxEvents /\ events' = events + 1
    /\ LET r == send_presence(run.base, ok)
       IN run' = IF run.raised # "none"
                 THEN [run EXCEPT !.outcome = "returned", !.pc = "done"]
                 ELSE [run EXCEPT
                          !.presence = Append(@, [type |-> "paused", where |-> "finally",
                                                  result |-> r]),
                          !.outcome = IF r = "raised" THEN "propagated" ELSE "returned",
                          !.pc = "done"]
    /\ UNCHANGED << store_up, _redis_client, list_vars, key_vars, local_vars,
                    buffer_sessions, wh, watcher, pa, clock_vars, hist_vars,
                    edit_window, tool, exits, pops >>

\* process_async, lines 378-380: finally: send_presence(tel, "paused") and
\* presence_sessions.pop(...); the call returns.
pa_finally(ok) ==
    /\ run.pc = "finally"
    /\ IF ok \/ ~run.base THEN UNCHANGED events
       ELSE events < MaxEvents /\ events' = events + 1
    /\ LET r == send_presence(run.base, ok)
       IN run' = [run EXCEPT
                     !.presence = Append(@, [type |-> "paused", where |-> "finally",
                                             result |-> r]),
                     !.outcome = IF r = "raised" THEN "propagated" ELSE "returned",
                     !.pc = "done"]
    /\ UNCHANGED << store_up, _redis_client, list_vars, key_vars, local_vars,
                    buffer_sessions, wh, watcher, pa, clock_vars, hist_vars,
                    edit_window, tool, exits, pops >>

\* One turn after another, with the store and the gateway failing at any
\* call and the engine answering anything.
NextTurn ==
    \/ \E base \in BOOLEAN, msg \in Fragments : pa_call(base, msg)
    \/ pa_exists
    \/ pa_set
    \/ \E ok \in BOOLEAN : pa_composing(ok)
    \/ \E engine \in EngineOutcomes, reply \in Replies : pa_run_agent(engine, reply)
    \/ \E ok \in BOOLEAN : pa_paused(ok)
    \/ send_whatsapp_message_call
    \/ send_whatsapp_message_sleep
    \/ send_whatsapp_message_post
    \/ \E ok \in BOOLEAN, d \in PostDurations : send_whatsapp_message_posted(ok, d)
    \/ pa_raise
    \/ \E ok \in BOOLEAN : pa_finally(ok)
    \/ store_flip

SpecTurn == Init /\ [][NextTurn]_vars

\* ------------------------------------------------- two drains in a row
\* The fallback list of the key, [] when there is none
local_list == IF _local_buffer = 0 THEN <<>> ELSE heap[_local_buffer]

\* pop_all_messages(telefone), lines 104-121: what the call returns when
\* nothing runs beside it.
pop_all_messages_result ==
    IF get_redis_client = "None" THEN local_list
    ELSE IF store_up THEN msgbuf
    ELSE <<>>

\* Faulty variant of pop_all_messages_effect: the list is read and left in
\* place (no pipe.delete, no _local_buffer.pop).
pop_all_messages_effect_keeping ==
    /\ _redis_client' = get_redis_client
    /\ UNCHANGED << msgbuf, msgbuf_ttl, _local_buffer >>

\* pop_all_messages(telefone), lines 107 and 114: the key is removed from the
\* buffer the call read.
pop_all_messages_effect ==
    /\ _redis_client' = get_redis_client
    /\ IF get_redis_client = "None"
       THEN /\ _local_buffer' = 0
            /\ UNCHANGED << msgbuf, msgbuf_ttl >>
       ELSE IF store_up
       THEN /\ msgbuf' = <<>>
            /\ msgbuf_ttl' = -2
            /\ UNCHANGED _local_buffer
       ELSE UNCHANGED << msgbuf, msgbuf_ttl, _local_buffer >>

\* pop_all_messages is called with no webhook call under way: the first of
\* two calls in a row.
pop_all_messages_first ==
    /\ pops.stage \in {0, 3}
    /\ wh.pc = "idle"
    /\ events < MaxEvents
    /\ events' = events + 1
    /\ pops' = [PopsIdle EXCEPT
                   !.stage = 1,
                   !.first = pop_all_messages_result,
                   !.before = IF get_redis_client = "None" THEN local_list ELSE msgbuf,
                   !.elsewhere = IF get_redis_client = "None" THEN msgbuf ELSE local_list,
                   !.answered = get_redis_client = "None" \/ store_up]
    /\ pop_all_messages_effect
    /\ UNCHANGED << store_up, heap, key_vars, buffer_sessions, wh, watcher, pa,
                    clock_vars, hist_vars, edit_window, tool, run, exits >>

\* get_buffer_length(telefone), lines 87-97, called after the first pop.
get_buffer_length_call ==
    /\ pops.stage = 1
    /\ _redis_client' = get_redis_client
    /\ pops' = [pops EXCEPT !.stage = 2, !.len = get_buffer_length,
                            !.answered = @ /\ (get_redis_client = "None" \/ store_up)]
    /\ UNCHANGED << conn_vars, list_vars, key_vars, local_vars, buffer_sessions, wh,
                    watcher, pa, clock_vars, hist_vars, edit_window, tool, run, exits >>

\* pop_all_messages is called again, no push having come in between.
pop_all_messages_second ==
    /\ pops.stage = 2
    /\ pops' = [pops EXCEPT !.stage = 3, !.second = pop_all_messages_result,
                            !.answered = @ /\ (get_redis_client = "None" \/ store_up)]
    /\ pop_all_messages_effect
    /\ UNCHANGED << conn_vars, heap, key_vars, buffer_sessions, wh, watcher, pa,
                    clock_vars, hist_vars, edit_window, tool, run, exits >>

\* Requests push fragments into the buffer, the store comes and goes, and
\* the buffer is drained twice in a row at any moment between two requests.
NextDrain ==
    \/ \E txt \in Fragments : pops.stage \in {0, 3} /\ webhook_receive(txt)
    \/ webhook_cooldown_get
    \/ push_message_to_buffer_start
    \/ push_message_to_buffer_local
    \/ push_message_to_buffer_ttl
    \/ push_message_to_buffer_expire
    \/ webhook_after_push
    \/ store_flip
    \/ pop_all_messages_first
    \/ get_buffer_length_call
    \/ pop_all_messages_second

SpecDrain == Init /\ [][NextDrain]_vars

\* ================================================================ claims
ActiveWatchers == { w \in Watchers : watcher[w].pc # "idle" }
InFlight == { p \in Procs : pa[p].pc # "idle" }

\* Fragment i is in the Redis list or in the fallback list of the key.
InRedis(i) == \E k \in 1..Len(msgbuf) : msgbuf[k].id = i
InLocal(i) ==
    /\ _local_buffer # 0
    /\ \E k \in 1..Len(heap[_local_buffer]) : heap[_local_buffer][k].id = i
\* pop_all_messages has handed fragment i to a watcher that has yet to join.
Held(i) ==
    \E w \in Watchers :
        /\ watcher[w].pc = "join"
        /\ \E k \in 1..Len(watcher_msgs(w)) : watcher_msgs(w)[k].id = i

\* C1: at any moment at most one buffer_loop watcher of the conversation is
\* active, and the buffer_sessions marker is set exactly while one is:
\* set before the thread is spawned, removed only when that watcher exits.
C1_OneWatcher ==
    /\ Cardinality(ActiveWatchers) <= 1
    /\ buffer_sessions <=> ActiveWatchers # {}

\* A second accepted push found the marker set and started nothing, while
\* the first push's watcher is still at work.
C1_Witness ==
    /\ wh.pc = "idle" /\ wh.elem.id >= 2 /\ wh.ret /\ ~wh.active
    /\ wh.marker /\ ~wh.armed
    /\ ActiveWatchers # {}

\* C2: at most one process_async call of the conversation is in flight at
\* any time, whether the watcher made it after a drain or the webhook
\* queued it because push_message_to_buffer returned False.
C2_OneTurnInFlight == Cardinality(InFlight) <= 1

\* The turns that hold a fragment of the latest burst.
BurstTurns ==
    { k \in 1..Len(turns) :
        \E j \in 1..Len(burst.frags) : \E i \in 1..Len(turns[k].ids) :
            turns[k].ids[i] = burst.frags[j].id }

\* The quiet period: three polls without growth.
QuietPeriod == StallLimit * PollInterval

\* C3: fragments pushed to an empty buffer, each less than the quiet period
\* after the one before and at least one of them not blank, are drained
\* once and make one turn: no fragment is joined twice, no two turns share
\* them, and once the quiet period and one more poll have passed since the
\* last push there is a turn whose text is the non-blank fragments joined
\* by single spaces in push order.
C3_OneTurnPerBurst ==
    (burst.frags # <<>> /\ burst.close /\ nonblank(burst.frags) # <<>>) =>
        /\ Cardinality(BurstTurns) <= 1
        /\ \A j \in 1..Len(burst.frags) : drained[burst.frags[j].id] <= 1
        /\ now > last_push + QuietPeriod + PollInterval =>
              \E k \in BurstTurns :
                  /\ turns[k].ids = ids(nonblank(burst.frags))
                  /\ turns[k].text = join(texts(nonblank(burst.frags)))

\* The same property for the bursts that begin with no watcher alive and no
\* turn under way; it holds on SpecTimed.
BurstFromIdle == burst.idle => C3_OneTurnPerBurst

\* C4: a fragment whose push returned True is in the buffer, or in the hands
\* of the one drain that took it, or was joined into a turn exactly once;
\* it is never in none of these places and never in two of them.
C4_AtomicDrain ==
    \A i \in accepted :
        /\ drained[i] <= 1
        /\ InRedis(i) \/ InLocal(i) \/ Held(i) \/ drained[i] = 1
        /\ ~((InRedis(i) \/ InLocal(i)) /\ (Held(i) \/ drained[i] = 1))

\* C5: when the store is unreachable during push_message_to_buffer, at the
\* connection or at a store call, the push returns True, the fragment is in
\* the fallback list and get_buffer_length, asked while the store is still
\* unreachable, counts it.
C5_PushNeverFails ==
    (wh.pc = "pushed" /\ wh.path \in {"local", "rpush_error", "ttl_error", "expire_error"})
        => /\ wh.ret
           /\ InLocal(wh.elem.id)
           /\ get_redis_client = "None" => get_buffer_length >= 1

\* C6: a webhook call that read the cooldown key as present appends its
\* fragment to the buffer, leaves buffer_sessions as it is and starts no
\* watcher; a call that finds no cooldown key (never set, or lapsed), whose
\* push is accepted and which finds no marker, sets the marker and starts
\* a watcher.
C6_CooldownBuffers ==
    [][ (wh.pc = "pushed" /\ wh'.pc = "idle") =>
           /\ wh.cdread = "present" =>
                  /\ buffer_sessions' = buffer_sessions
                  /\ watcher' = watcher
                  /\ turns' = turns
                  /\ wh.ret => InRedis(wh.elem.id) \/ Held(wh.elem.id)
                                  \/ drained[wh.elem.id] >= 1
           /\ (wh.cdread = "absent" /\ wh.ret /\ ~buffer_sessions) =>
                  /\ buffer_sessions'
                  /\ \E w \in Watchers : watcher[w].pc = "idle" /\ watcher'[w].pc = "start"
      ]_vars

\* A cooldown began and lapsed; the fragment pushed under it waited in the
\* buffer with no watcher, and the push after the lapse has armed one.
C6_Witness ==
    /\ wh.pc = "idle" /\ wh.armed /\ wh.cdread = "absent" /\ wh.elem.id >= 2
    /\ cd_epoch >= 1 /\ cooldown = -2
    /\ \E k \in 1..Len(msgbuf) : msgbuf[k].cd = cd_epoch

\* C7: no turn handed to process_async while a cooldown is in force holds
\* a fragment that was received under that same cooldown.
C7_NoDispatchInCooldown ==
    \A k \in 1..Len(turns) : turns[k].cd = 0 \/ turns[k].cd \notin turns[k].frag_cd

\* The session checks the store has answered, in the order of their set.
Checked == [n \in 1..NumChecks |-> turns[CHOOSE k \in 1..Len(turns) : turns[k].seq = n]]
SessionTTL == session_set(ttl_minutes)

\* C8: of the checks the store answers, each made after the one before it
\* was over: the first, made with no session key, returns False; one made
\* less than the TTL after the check before it returns True; one made once
\* the TTL has run out since the check before it returns False again.
C8_SessionWindow ==
    \A k \in 1..Len(Checked) :
        ~Checked[k].overlap =>
            Checked[k].check =
                IF k = 1 THEN "False"
                ELSE IF Checked[k].at - Checked[k - 1].at < SessionTTL THEN "True"
                ELSE "False"

\* Three checks: a new session, a live one, and one after the TTL ran out.
C8_Witness ==
    /\ Len(Checked) = 3
    /\ \A k \in 1..3 : ~Checked[k].overlap
    /\ Checked[1].check = "False" /\ Checked[2].check = "True"
    /\ Checked[3].check = "False"

\* C9: every check the store answers, whatever it returns, leaves the
\* session key with the full ttl_minutes to live: the key's remaining
\* lifetime is always measured from the latest check, so checks made one
\* after the other, each less than ttl_minutes after the one before, keep
\* returning True however long the session has lasted, and a gap of
\* ttl_minutes or more returns False.
C9_SlidingWindow ==
    /\ session_order = IF Checked = <<>> THEN -2
                       ELSE ttl_after(SessionTTL, now - Checked[Len(Checked)].at)
    /\ \A k \in 2..Len(Checked) :
          ~Checked[k].overlap =>
              ((Checked[k].check = "True")
                   <=> (Checked[k].at - Checked[k - 1].at < SessionTTL))

\* A session still alive at its third check although more than the TTL
\* has passed since its first.
C9_Witness ==
    /\ Len(Checked) = 3
    /\ \A k \in 1..3 : ~Checked[k].overlap
    /\ Checked[3].check = "True"
    /\ Checked[3].at - Checked[1].at >= SessionTTL
    /\ session_order = SessionTTL

\* C11: the edit_window key lives exactly edit_minutes from the latest
\* set_order_edit_window that succeeded, whatever is_order_editable calls
\* were made since; and every is_order_editable call the store answers
\* returns True when made less than edit_minutes after that set and False
\* when made later, or when no window was ever opened.
C11_EditWindow ==
    /\ edit_window = IF tool.opened_at < 0 THEN -2
                     ELSE ttl_after(set_order_edit_window(edit_minutes),
                                    now - tool.opened_at)
    /\ tool.read.result \in {"True", "False"} /\ ~tool.read.unavailable =>
          ((tool.read.result = "True") <=>
               /\ tool.read.opened >= 0
               /\ tool.read.at - tool.read.opened < set_order_edit_window(edit_minutes))

\* A window was opened, at least two reads found it open, the last of
\* them some minutes in, and the window has since run out unchanged.
C11_Witness ==
    /\ tool.opened_at >= 0 /\ tool.trues = 2
    /\ tool.read.result = "True" /\ tool.read.at > tool.read.opened
    /\ tool.read.opened = tool.opened_at
    /\ edit_window = -2

\* C12: whenever the store is unavailable to is_order_editable, no client
\* or a failing exists call, the call returns False: it neither reports
\* the order editable nor raises.
C12_FailClosed == tool.read.unavailable => tool.read.result = "False"

\* C13: when the order was not accepted (rejection with 400/422, body that
\* is not JSON, transport error), pedidos_tool does not call
\* set_order_edit_window.
C13_WindowOnlyOnSuccess ==
    tool.outcome \in {"rejected", "invalid_json", "transport"} => ~tool.set_called

\* C14: every step in which a buffer_loop thread ends, after its dispatch or
\* after an exception, leaves the marker removed; the marker is never set
\* with no watcher alive; and an accepted push outside cooldown that comes
\* after a watcher has ended and finds none alive starts a new one.
C14_ExitClearsMarker ==
    /\ [](ActiveWatchers = {} => ~buffer_sessions)
    /\ [][ /\ \A w \in Watchers :
                 (watcher[w].pc # "idle" /\ watcher'[w].pc = "idle") => ~buffer_sessions'
           /\ (wh.pc = "pushed" /\ wh'.pc = "idle" /\ ~wh.active /\ wh.ret
                  /\ exits # <<>> /\ ActiveWatchers = {}) =>
                 \E w \in Watchers : watcher'[w].pc = "start"
         ]_vars

\* A watcher ended by an exception, and a later push has armed a new one.
C14_Witness ==
    /\ exits # <<>> /\ exits[Len(exits)] = "raised"
    /\ wh.pc = "idle" /\ wh.armed /\ wh.elem.id >= 2
    /\ ActiveWatchers # {}

\* The text holds the separator somewhere.
HasDelim(s) == \E i \in 1..Len(s) - 2 : SubSeq(s, i, i + 2) = Delim

\* The ways to cut s at occurrences of the separator that do not overlap and
\* leave no separator inside a piece.
Pieces(s, C) ==
    LET n == Cardinality(C)
        c(k) == CHOOSE x \in C : Cardinality({ y \in C : y < x }) = k - 1
    IN [k \in 1..n + 1 |->
          SubSeq(s, IF k = 1 THEN 1 ELSE c(k - 1) + 3, IF k = n + 1 THEN Len(s) ELSE c(k) - 1)]

Cuts(s) ==
    { C \in SUBSET { i \in 1..Len(s) - 2 : SubSeq(s, i, i + 2) = Delim } :
        /\ \A x, y \in C : x < y => x + 3 <= y
        /\ \A k \in 1..Cardinality(C) + 1 : ~HasDelim(Pieces(s, C)[k]) }

\* A piece without the blanks around it.
Trimmed(p) ==
    LET inked == { i \in 1..Len(p) : p[i] # " " }
    IN IF inked = {} THEN <<>>
       ELSE SubSeq(p, CHOOSE i \in inked : \A j \in inked : i <= j,
                      CHOOSE i \in inked : \A j \in inked : i >= j)

\* The non-empty segments of s cut at C, in their order.
Segments(s, C) ==
    LET P == Pieces(s, C)
    IN SelectSeq([k \in 1..Len(P) |-> Trimmed(P[k])], LAMBDA m : m # <<>>)

\* C15: with a gateway address configured, a reply that holds '|||' goes out
\* as the non-empty segments between the separators, in their order, one POST
\* each: the first POST begins with no pause after send_whatsapp_message is
\* called, every later one begins between 1.0 s and 2.5 s after the one before
\* it has returned, never two are in flight, and when the call returns True
\* every segment has been sent.
C15_SegmentedDelivery ==
    (run.pc # "idle" /\ run.called /\ run.base /\ HasDelim(run.txt)) =>
        /\ \A k \in 1..Len(run.sends) :
              /\ k = 1 => run.sends[k].begun = 0
              /\ k > 1 => /\ run.sends[k - 1].returned # -1
                          /\ run.sends[k].begun - run.sends[k - 1].returned
                                \in Ticks(1)..(Ticks(2) + 1)
              /\ k < Len(run.sends) => run.sends[k].returned # -1
        /\ \E C \in Cuts(run.txt) :
              LET expected == Segments(run.txt, C)
              IN /\ Len(run.sends) <= Len(expected)
                 /\ \A k \in 1..Len(run.sends) : run.sends[k].text = expected[k]
                 /\ run.sendret = "True" => Len(run.sends) = Len(expected)

\* A reply with the separator has gone out whole in several messages, one of
\* them with blanks taken off.
C15_Witness ==
    /\ run.pc = "done" /\ run.base /\ HasDelim(run.txt)
    /\ run.sendret = "True"
    /\ Len(run.sends) >= 2
    /\ run.sends[2].begun > run.sends[1].returned
    /\ run.txt[1] = " "

\* C16: every process_async call that has ended made send_presence(tel,
\* "paused") in its finally clause its last presence call, whatever raised
\* before; with a gateway address configured the POST was made.
C16_PausedInCleanup ==
    run.pc = "done" =>
        /\ run.presence # <<>>
        /\ LET last == run.presence[Len(run.presence)]
           IN /\ last.type = "paused"
              /\ last.where = "finally"
              /\ run.base => last.result \in {"sent", "swallowed"}

\* A call whose session check raised has ended with the paused signal.
C16_Witness ==
    /\ run.pc = "done" /\ run.base
    /\ run.raised = "session"
    /\ run.presence = << [type |-> "paused", where |-> "finally", result |-> "sent"] >>

\* C17: when the engine raises, run_agent returns "Erro no sistema." and
\* process_async returns normally; unless something else raised in the turn,
\* send_whatsapp_message is called with that text, and with a gateway address
\* configured it goes out as one message.
C17_EngineFailureDelivered ==
    (run.pc = "done" /\ run.engine = "raised") =>
        /\ run.txt = ErroNoSistema
        /\ run.outcome = "returned"
        /\ run.raised = "none" =>
              /\ run.called
              /\ run.base => /\ Len(run.sends) = 1
                             /\ run.sends[1].text = ErroNoSistema

\* The engine raised and the failure text reached the gateway.
C17_Witness ==
    /\ run.pc = "done" /\ run.engine = "raised" /\ run.base
    /\ Len(run.sends) = 1 /\ run.sends[1].ok
    /\ run.sends[1].text = ErroNoSistema

\* A presence POST or a text POST of the turn has failed.
GatewayFailed ==
    \/ \E k \in 1..Len(run.presence) : run.presence[k].result \in {"swallowed", "raised"}
    \/ \E k \in 1..Len(run.sends) : run.sends[k].returned # -1 /\ ~run.sends[k].ok

\* C18: no failing gateway call leaves the try block or the call: the call
\* ends by returning, and when nothing but gateway calls failed the engine
\* has been invoked and send_whatsapp_message has been called.
C18_GatewayFailuresSwallowed ==
    run.pc = "done" =>
        /\ run.outcome = "returned"
        /\ \A k \in 1..Len(run.presence) : run.presence[k].result # "raised"
        /\ (GatewayFailed /\ run.raised \notin {"session", "engine", "send"}) =>
              /\ run.engine # "none"
              /\ run.called

\* The composing signal and a text POST failed in a turn that went through.
C18_Witness ==
    /\ run.pc = "done"
    /\ \E k \in 1..Len(run.presence) :
          run.presence[k].type = "composing" /\ run.presence[k].result = "swallowed"
    /\ \E k \in 1..Len(run.sends) : ~run.sends[k].ok
    /\ run.engine = "ok"

\* C19: a call of is_agent_in_cooldown that has no client, whose client.get
\* or client.ttl raises, or whose client.get finds no key returns (False, -1);
\* and a webhook call whose cooldown read failed does not take the cooldown
\* branch: an accepted push leaves the marker set, a refused one queues
\* process_async.
C19_CooldownFailOpen ==
    /\ [](wh.cdread \in {"failed", "absent"} => ~wh.active /\ wh.ttl = -1)
    /\ [][ (wh.pc = "pushed" /\ wh'.pc = "idle" /\ wh.cdread = "failed") =>
              /\ wh.ret => buffer_sessions'
              /\ ~wh.ret => Len(turns') = Len(turns) + 1
         ]_vars

\* The cooldown key is set and the store does not answer: the call read no
\* cooldown and its fragment went on to a turn.
C19_Witness ==
    /\ wh.pc = "idle" /\ wh.cdread = "failed" /\ wh.ttl = -1 /\ ~wh.active
    /\ cooldown # -2 /\ ~store_up
    /\ \E k \in 1..Len(turns) : turns[k].ids = << wh.elem.id >>

\* C20: two calls of pop_all_messages in a row with no push in between,
\* every buffered fragment being in the buffer the calls read and the store
\* answering each call: the first returns all the fragments, in their order,
\* get_buffer_length is then 0, and the second returns the empty list.
C20_DrainTwice ==
    (pops.stage = 3 /\ pops.answered /\ pops.elsewhere = <<>>) =>
        /\ pops.first = pops.before
        /\ pops.len = 0
        /\ pops.second = <<>>

\* Two fragments were buffered and drained by the first of the two calls.
C20_Witness ==
    /\ pops.stage = 3 /\ pops.answered /\ pops.elsewhere = <<>>
    /\ Len(pops.first) = 2
    /\ pops.second = <<>>

\* Watcher w takes a sample in this step.
Polls(w) ==
    /\ watcher[w].pc = "sleeping"
    /\ watcher'[w].pc \in {"sleeping", "pop"}
    /\ watcher'[w] # watcher[w]
    /\ now' = now

\* C21: at each poll the stall counter goes to 0 when the length sampled is
\* greater than the length sampled at the poll before (or at the start), and
\* up by one otherwise, whatever the samples were, a length that went down
\* included; the watcher goes on to drain exactly when the counter is 3.
C21_StallCounter ==
    [][ \A w \in Watchers :
           Polls(w) =>
              /\ watcher'[w].stall = IF watcher'[w].last > watcher[w].last THEN 0
                                     ELSE watcher[w].stall + 1
              /\ watcher'[w].pc = "pop" <=> watcher'[w].stall = StallLimit
      ]_vars

\* C23: no turn reaches process_async with an empty text, and a turn handed
\* over by a watcher has a text that is not blank; a watcher whose drain
\* returned nothing, or blank fragments only, goes to its finally clause
\* without calling process_async.
C23_NoEmptyTurn ==
    /\ [](\A k \in 1..Len(turns) :
             /\ turns[k].text # <<>>
             /\ turns[k].by \in Watchers => strip_nonempty(turns[k].text))
    /\ [][ \A w \in Watchers :
              (watcher[w].pc = "join" /\ watcher'[w].pc # "join"
                 /\ \A k \in 1..Len(watcher_msgs(w)) :
                        ~strip_nonempty(watcher_msgs(w)[k].txt)) =>
                  /\ turns' = turns
                  /\ pa' = pa
                  /\ watcher'[w].pc = "finally"
         ]_vars

\* A watcher drained a blank fragment and ended without a turn.
C23_Witness ==
    /\ exits = << "returned" >>
    /\ turns = <<>>
    /\ drained[1] = 1
    /\ accepted = {1}

\* The text holds the note of an expired session.
HasNote(t) == \E i \in 1..Len(t) : << t[i] >> = SystemNote

\* C25: the text run_agent is invoked with holds the note about the expired
\* session exactly when check_and_refresh_session returned False for the
\* turn; when it returned True the text is the turn's text as it came.
C25_NoteIffExpired ==
    (run.pc # "idle" /\ run.engine # "none") =>
        /\ HasNote(run.given) <=> run.sessao = "False"
        /\ run.sessao = "True" => run.given = run.msg
        /\ run.sessao = "False" =>
              /\ Len(run.given) = Len(run.msg) + 2
              /\ SubSeq(run.given, 3, Len(run.given)) = run.msg

\* A turn that found no session reached the engine with the note before
\* its text.
C25_Witness ==
    /\ run.pc # "idle"
    /\ run.engine # "none"
    /\ run.sessao = "False"
    /\ run.given = SystemNote \o << " " >> \o run.msg

\* No request is being handled, no watcher is active and no turn is running:
\* nothing more happens to the conversation unless another request comes.
Quiescent == wh.pc = "idle" /\ ActiveWatchers = {} /\ InFlight = {}

\* The store has answered every call so far and no cooldown was ever set:
\* every outside event has been a request.
OnlyRequests == store_up /\ events = npush

\* C26: every fragment accepted into the buffer of a conversation that is
\* not in cooldown is handed to process_async without a later push being
\* needed: once the conversation is at rest no accepted fragment is still
\* waiting, also when it arrived between the drain and the removal of the
\* marker.  Read with the store answering every call.
C26_EveryFragmentDispatched ==
    (Quiescent /\ OnlyRequests) => \A i \in accepted : drained[i] >= 1

\* The turns fragment i has been handed to process_async in.
TurnsOf(i) == { k \in 1..Len(turns) : \E j \in 1..Len(turns[k].ids) : turns[k].ids[j] = i }

\* C27: each fragment is handed to process_async at most once: a fragment
\* whose push returned False, which the webhook dispatches at once, is not
\* in the buffer as well, where a watcher would drain and dispatch it again.
C27_AtMostOnce ==
    /\ \A i \in 1..npush : Cardinality(TurnsOf(i)) <= 1
    /\ (wh.pc = "pushed" /\ ~wh.ret) => ~InRedis(wh.elem.id) /\ ~InLocal(wh.elem.id)

\* pop_all_messages, called by watcher w, returns in this step.
PopReturns(w) == watcher[w].pc \in {"pop", "pop_local"} /\ watcher'[w].pc = "join"

\* C28: a fragment that was put into the fallback list while the store was
\* unreachable is in the list the next pop_all_messages returns, whether
\* the store answers or not at the polls and at the drain.
C28_FallbackDrained ==
    [][ \A w \in Watchers :
           PopReturns(w) => \A i \in 1..npush : InLocal(i) => Held(i)'
      ]_vars

\* C30: alterar_tool sends the update to the orders back-end only when the
\* edit window of the conversation is open at the time of the call.
C30_AlterarOnlyInWindow == tool.alterar # "sent_closed"

\* C29: a fragment accepted into the buffer while a watcher of its
\* conversation is active is not removed by the expiry of the buffer key
\* before that watcher drains it, however long the burst: no passing of
\* time under an active watcher takes a fragment out of the Redis list.
C29_NoExpiryUnderWatcher ==
    [][ (ActiveWatchers # {} /\ now' # now) =>
           \A i \in accepted : InRedis(i) => InRedis(i)'
      ]_vars

\* C22: a watcher drains at the third poll in a row that observed no new
\* fragment and not before: the poll that sends it to pop_all_messages
\* comes a full quiet period after the last fragment landed, and a poll
\* more than a quiet period after the last fragment does send it there.
C22_DrainWhenQuiet ==
    [][ \A w \in Watchers :
           (timed /\ Polls(w)) =>
              /\ watcher'[w].pc = "pop" => now - last_push >= QuietPeriod
              /\ now - last_push > QuietPeriod => watcher'[w].pc = "pop"
      ]_vars

\* C24: when push_message_to_buffer has returned True on the Redis path and
\* its fragment is in the list, the key has a TTL: the one it had before
\* the push when it had one, the default of 300 s when the push created the
\* key (the first push ever, or the first after a drain or an expiry) or
\* found it without one.
C24_TtlOnCreationOnly ==
    (wh.pc = "pushed" /\ wh.ret /\ wh.path = "redis" /\ InRedis(wh.elem.id)) =>
        /\ msgbuf_ttl >= 0
        /\ wh.key_ttl >= 0 => msgbuf_ttl = wh.key_ttl
        /\ wh.key_ttl < 0 => msgbuf_ttl = Ticks(ttl_seconds)

\* A later fragment of a burst was pushed onto a key whose TTL had run
\* down, and left it as it was.
C24_Witness ==
    /\ wh.pc = "pushed" /\ wh.ret /\ wh.path = "redis"
    /\ wh.key_ttl >= 0 /\ wh.key_ttl < Ticks(ttl_seconds)
    /\ msgbuf_ttl = wh.key_ttl

\* C10: whenever check_and_refresh_session finds the store unavailable, no
\* client or a failing exists/set, it answers True and process_async goes
\* on to the response engine.
C10_FailOpen ==
    \A p \in Procs :
        pa[p].unavailable =>
            /\ pa[p].check = "True"
            /\ pa[p].pc = "finally" => pa[p].engine
====
